---- MODULE Spec2Model ----
(***************************************************************************)
(* Job control of the interactive shell in src/main.cpp: the Job Table,    *)
(* the pipeline executor (runPipeline), the SIGCHLD flag and its draining  *)
(* pass (update_jobs), and the fg/bg handling of the main loop.            *)
(*                                                                         *)
(* The shell is one sequential process; pc is its position.  A step of the *)
(* shell runs from one system call that the children can race with (fork,  *)
(* setpgid, waitpid, the read of the next line) to the next.  The children *)
(* and the keyboard are the environment:                                   *)
(*  - a child runs from fork to its exec in one step (it joins its group,  *)
(*    resets its signals, replaces its image); its program can then stop   *)
(*    or end at any time;                                                  *)
(*  - the keyboard sends SIGINT, SIGTSTP or SIGQUIT to the foreground      *)
(*    process group of the terminal at any time;                           *)
(*  - signals have the kernel's semantics: a fatal signal stays pending on *)
(*    a stopped process, SIGCONT resumes it, an exited child exists (as a  *)
(*    zombie, still in its group) until waitpid reaps it.                  *)
(* Process ids are handed out in increasing order and are not reused       *)
(* within a run.  The text of a command line is stood for by its number of *)
(* stages.  A shell that a signal stopped or terminated, or that has       *)
(* exited, takes no further step and its children are no longer followed.  *)
(*                                                                         *)
(* Two parts of the program that depend on nothing but their arguments are *)
(* followed by themselves: LineSpec is what main does with the tokens of   *)
(* one line (buildCommands and the choice between a builtin and a          *)
(* pipeline), StageSpec is what one forked child does with its descriptors *)
(* before it replaces its image.                                           *)
(***************************************************************************)
EXTENDS Integers, Sequences, FiniteSets, TLC

\* ------------------------------------------------------------------ bounds
MaxProcs == 2    \* processes the shell forks in one run
MaxStages == 2   \* stages of one command line
MaxFds == 4      \* pipe descriptors the shell can hold open (descriptor limit)
MaxTokens == 3   \* tokens of one line (LineSpec)
MaxWired == 3    \* stages of the pipeline a child is set up for (StageSpec)

\* --------------------------------------------------------------- constants
shell_pgid == 1  \* getpid() of the shell, its own process group

Pids == (shell_pgid + 1)..(shell_pgid + MaxProcs)
LastPid == shell_pgid + MaxProcs

VARIABLES
  procs,             \* the shell's children: pid -> process
  next_pid,          \* the pid the next fork returns
  jobs,              \* vector<Job> jobs
  next_jid,          \* int next_jid
  tty,               \* foreground process group of the terminal
  child_terminated,  \* volatile sig_atomic_t child_terminated
  shell_st,          \* the shell process: "running", "stopped", "terminated"
  pc,                \* position of the main loop
  n,                 \* runPipeline: cmds.size() of the running invocation
  background,        \* runPipeline: background
  pipes,             \* runPipeline: pipes created by this invocation
  pids,              \* runPipeline: vector<pid_t> pids
  pgid,              \* runPipeline: pgid
  pid,               \* runPipeline: the pid fork() just returned
  job_stopped,       \* runPipeline: job_stopped
  target,            \* main: Job *target, as an index into jobs (0 = nullptr)
  shell_fds,         \* pipe descriptors open in the shell
  tokens,            \* main: vector<string> tokens of the line being handled
  cmds,              \* main: vector<Command> cmds, the result of buildCommands
  handled,           \* what main did with the line ("" = not handled yet)
  stage,             \* runPipeline, child: i, n and cmds[i] of the forked child
  child              \* that child: its descriptor table and how far it got

vars == <<procs, next_pid, jobs, next_jid, tty, child_terminated, shell_st, pc,
          n, background, pipes, pids, pgid, pid, job_stopped, target, shell_fds,
          tokens, cmds, handled, stage, child>>

\* The variables of the handling of one line (LineSpec) and of the set-up of
\* one child (StageSpec), each taken by itself; the job-control steps leave
\* them alone.
aside == <<tokens, cmds, handled, stage, child>>

frame == <<n, background, pipes, pids, pgid, pid, job_stopped>>

\* ---------------------------------------------------------------- processes
\* st: "none" (not forked yet), "run", "stop", "zombie" (exited, not reaped),
\*     "gone" (reaped).   pgrp: its process group.   cpc: "start" (forked, has
\*     not run yet) or "exec" (has joined its group, reset its signals and
\*     replaced its image).   rep: the state change waitpid has still to
\*     report ("none", "stop", "cont").   term: a fatal signal is pending on
\*     the stopped process.   lead: the child's copy of pgid at fork.
NoProc == [st |-> "none", pgrp |-> 0, cpc |-> "start", rep |-> "none",
           term |-> FALSE, lead |-> 0]

GoneProc == [NoProc EXCEPT !.st = "gone"]

Exists(ps, p) == p \in Pids /\ ps[p].st \in {"run", "stop", "zombie"}

Live(ps, p) == p \in Pids /\ ps[p].st \in {"run", "stop"}

InGroup(ps, g) == {p \in Pids : Exists(ps, p) /\ ps[p].pgrp = g}

\* getpgid(pid): the group of an existing process, -1 (ESRCH) otherwise.
getpgid(ps, p) ==
  IF p = shell_pgid THEN shell_pgid
  ELSE IF Exists(ps, p) THEN ps[p].pgrp ELSE -1

\* Default action of a fatal signal: a running process dies; on a stopped
\* process the signal stays pending until the process is continued.
Fatal(pr) ==
  IF pr.st = "run" THEN [pr EXCEPT !.st = "zombie", !.rep = "none"]
  ELSE IF pr.st = "stop" THEN [pr EXCEPT !.term = TRUE]
  ELSE pr

\* Default action of a stop signal.
Stopped(pr) ==
  IF pr.st = "run" THEN [pr EXCEPT !.st = "stop", !.rep = "stop"] ELSE pr

\* SIGCONT: a stopped process resumes (and dies of a pending fatal signal).
Continued(pr) ==
  IF pr.st = "stop"
  THEN IF pr.term THEN [pr EXCEPT !.st = "zombie", !.rep = "none", !.term = FALSE]
       ELSE [pr EXCEPT !.st = "run", !.rep = "cont"]
  ELSE pr

\* SIGCHLD is raised for an exit only (SA_NOCLDSTOP): the handler sets the flag.
SomeDied(ps, qs) == \E p \in Pids : ps[p].st # "zombie" /\ qs[p].st = "zombie"

sigchld_handler(ps, qs, flag) == IF SomeDied(ps, qs) THEN 1 ELSE flag

\* kill(-g, SIGCONT)
kill_cont(ps, g) ==
  [p \in Pids |-> IF p \in InGroup(ps, g) THEN Continued(ps[p]) ELSE ps[p]]

\* kill(-c, SIGTERM) for every c of cs
kill_term(ps, cs) ==
  [p \in Pids |-> IF Exists(ps, p) /\ ps[p].pgrp \in cs THEN Fatal(ps[p]) ELSE ps[p]]

\* kill(-g, 0) < 0: no process of the group is left
kill_probe_fails(ps, g) == InGroup(ps, g) = {}

\* tcsetpgrp(STDIN_FILENO, g): fails, changing nothing, when g is no group
tcsetpgrp(ps, cur, g) ==
  IF g = shell_pgid \/ InGroup(ps, g) # {} THEN g ELSE cur

\* ---------------------------------------------------------------- Job Table
Job(jid, pg, cmd, status) ==
  [jid |-> jid, pgid |-> pg, cmd |-> cmd, status |-> status]

\* The first entry that matches, as an index (a Job*); 0 is nullptr.
First(hits) == IF hits = {} THEN 0 ELSE CHOOSE i \in hits : \A k \in hits : i <= k

find_job_by_jid(js, jid) == First({i \in 1..Len(js) : js[i].jid = jid})

find_job_by_pgid(js, pg) == First({i \in 1..Len(js) : js[i].pgid = pg})

find_job_by_pid(js, ps, p) ==
  LET pg == getpgid(ps, p) IN IF pg < 0 THEN 0 ELSE find_job_by_pgid(js, pg)

remove_job_by_pgid(js, pg) == SelectSeq(js, LAMBDA j : j.pgid # pg)

\* ------------------------------------------------------------------- Init
\* The shell before its first prompt; bg is the background flag of the line
\* in hand.
Boot(bg) ==
  /\ procs = [p \in Pids |-> NoProc]
  /\ next_pid = shell_pgid + 1
  /\ jobs = <<>>
  /\ next_jid = 1
  /\ tty = shell_pgid
  /\ child_terminated = 0
  /\ shell_st = "running"
  /\ pc = "poll"
  /\ n = 0
  /\ background = bg
  /\ pipes = 0
  /\ pids = <<>>
  /\ pgid = 0
  /\ pid = 0
  /\ job_stopped = FALSE
  /\ target = 0
  /\ shell_fds = 0

\* No child is being set up.
NoStage == [i |-> 0, n |-> 0, argv |-> <<>>, infile |-> "", outfile |-> "",
            append |-> FALSE]

NoChild == [fds |-> <<>>, at |-> "none"]

Init ==
  /\ Boot(FALSE)
  /\ tokens = <<>>
  /\ cmds = <<>>
  /\ handled = ""
  /\ stage = NoStage
  /\ child = NoChild

\* ------------------------------------------------------------ environment
\* The model follows the children while the shell runs: a shell that was
\* stopped or terminated by a signal, or has exited, takes no further step.
ShellAlive == shell_st = "running" /\ pc # "exited"

\* A child runs lines 205-250: it joins its group (its own, when it is the
\* first), resets SIGINT, SIGTSTP and SIGQUIT to default and replaces its image.
\* Variant: every child calls setpgid(0, 0).
child_group_own(pr, p) == p

child_group(pr, p) == IF pr.lead = 0 THEN p ELSE pr.lead

ChildExec(p) ==
  /\ ShellAlive
  /\ procs[p].st = "run" /\ procs[p].cpc = "start"
  /\ procs' = [procs EXCEPT ![p].cpc = "exec", ![p].pgrp = child_group(procs[p], p)]
  /\ UNCHANGED <<next_pid, jobs, next_jid, tty, child_terminated, shell_st, pc,
                 frame, target, shell_fds>>
  /\ UNCHANGED aside

\* The program of a stage ends: the kernel raises SIGCHLD in the shell.
ChildExit(p) ==
  /\ ShellAlive
  /\ procs[p].st = "run" /\ procs[p].cpc = "exec"
  /\ procs' = [procs EXCEPT ![p] = Fatal(procs[p])]
  /\ child_terminated' = sigchld_handler(procs, procs', child_terminated)
  /\ UNCHANGED <<next_pid, jobs, next_jid, tty, shell_st, pc, frame, target, shell_fds>>
  /\ UNCHANGED aside

\* The program of a stage is stopped (SIGSTOP, SIGTTIN, ...): no SIGCHLD.
ChildStop(p) ==
  /\ ShellAlive
  /\ procs[p].st = "run" /\ procs[p].cpc = "exec"
  /\ procs' = [procs EXCEPT ![p] = Stopped(procs[p])]
  /\ child_terminated' = sigchld_handler(procs, procs', child_terminated)
  /\ UNCHANGED <<next_pid, jobs, next_jid, tty, shell_st, pc, frame, target, shell_fds>>
  /\ UNCHANGED aside

\* Signal dispositions of the shell (lines 348-350): only SIGQUIT of the three
\* keyboard signals is ignored.
ShellDisp(sig) == IF sig = "QUIT" THEN "IGN" ELSE "DFL"

\* A child has the shell's dispositions until it reset them (lines 209-211).
ChildDisp(pr, sig) == IF pr.cpc = "exec" THEN "DFL" ELSE ShellDisp(sig)

KeySignals == {"INT", "TSTP", "QUIT"}

Deliver(pr, sig) ==
  IF ChildDisp(pr, sig) = "IGN" THEN pr
  ELSE IF sig = "TSTP" THEN Stopped(pr) ELSE Fatal(pr)

\* The keyboard sends a signal to the foreground process group of the terminal.
KeySig(sig) ==
  /\ ShellAlive
  /\ procs' = [p \in Pids |->
                 IF Exists(procs, p) /\ procs[p].pgrp = tty
                 THEN Deliver(procs[p], sig) ELSE procs[p]]
  /\ child_terminated' = sigchld_handler(procs, procs', child_terminated)
  /\ shell_st' = IF tty = shell_pgid /\ ShellDisp(sig) = "DFL" /\ shell_st = "running"
                 THEN (IF sig = "TSTP" THEN "stopped" ELSE "terminated")
                 ELSE shell_st
  /\ <<procs', shell_st'>> # <<procs, shell_st>>
  /\ UNCHANGED <<next_pid, jobs, next_jid, tty, pc, frame, target, shell_fds>>
  /\ UNCHANGED aside

\* -------------------------------------------------------------- main loop
Running == shell_st = "running"

NoFrame ==
  /\ n' = 0 /\ background' = FALSE /\ pipes' = 0 /\ pids' = <<>>
  /\ pgid' = 0 /\ pid' = 0 /\ job_stopped' = FALSE

\* line 362: if (child_terminated) update_jobs();
Poll ==
  /\ Running /\ pc = "poll"
  /\ pc' = IF child_terminated # 0 THEN "drain" ELSE "read"
  /\ UNCHANGED <<procs, next_pid, jobs, next_jid, tty, child_terminated, shell_st,
                 frame, target, shell_fds>>
  /\ UNCHANGED aside

\* What waitpid(-1, WNOHANG | WUNTRACED | WCONTINUED) can return.
Waitable(ps) == {p \in Pids : ps[p].st = "zombie" \/ (Exists(ps, p) /\ ps[p].rep # "none")}

\* The state of the children after waitpid returned p.
Waited(ps, p) ==
  IF ps[p].st = "zombie" THEN [ps EXCEPT ![p] = GoneProc]
  ELSE [ps EXCEPT ![p].rep = "none"]

\* One round of the loop of update_jobs (lines 99-122): the job is looked up
\* after waitpid returned, when an exited child is no longer there.
update_jobs(js, ps, p) ==
  LET qs == Waited(ps, p)
      j  == find_job_by_pid(js, qs, p)
  IN IF ps[p].st = "zombie"
     THEN IF j # 0 THEN remove_job_by_pgid(js, js[j].pgid) ELSE js
     ELSE IF ps[p].rep = "stop"
     THEN IF j # 0 THEN [js EXCEPT ![j].status = "STOPPED"] ELSE js
     ELSE IF j # 0 THEN [js EXCEPT ![j].status = "RUNNING"] ELSE js

Drain(p) ==
  /\ Running /\ pc = "drain"
  /\ p \in Waitable(procs)
  /\ procs' = Waited(procs, p)
  /\ jobs' = update_jobs(jobs, procs, p)
  /\ UNCHANGED <<next_pid, next_jid, tty, child_terminated, shell_st, pc,
                 frame, target, shell_fds>>
  /\ UNCHANGED aside

\* waitpid returns 0 or -1: the loop ends (line 122).
DrainEnd ==
  /\ Running /\ pc = "drain"
  /\ Waitable(procs) = {}
  /\ pc' = "clear"
  /\ UNCHANGED <<procs, next_pid, jobs, next_jid, tty, child_terminated, shell_st,
                 frame, target, shell_fds>>
  /\ UNCHANGED aside

\* line 123: child_terminated = 0;
Clear ==
  /\ Running /\ pc = "clear"
  /\ child_terminated' = 0
  /\ pc' = "read"
  /\ UNCHANGED <<procs, next_pid, jobs, next_jid, tty, shell_st, frame, target, shell_fds>>
  /\ UNCHANGED aside

\* End of input, or the exit builtin (lines 365, 400).
ReadExit ==
  /\ Running /\ pc = "read"
  /\ pc' = "exited"
  /\ UNCHANGED <<procs, next_pid, jobs, next_jid, tty, child_terminated, shell_st,
                 frame, target, shell_fds>>
  /\ UNCHANGED aside

\* An empty line, jobs or cd: back to the top of the loop (lines 368, 390-399).
ReadNoop ==
  /\ Running /\ pc = "read"
  /\ pc' = "poll"
  /\ UNCHANGED <<procs, next_pid, jobs, next_jid, tty, child_terminated, shell_st,
                 frame, target, shell_fds>>
  /\ UNCHANGED aside

\* ------------------------------------------------------------- runPipeline
\* A command line of k stages is launched (lines 486-490, 160-190): every
\* pipe(2) succeeds.  The line's text is stood for by its number of stages.
ReadLaunch(k, bg) ==
  /\ Running /\ pc = "read"
  /\ shell_fds + 2 * (k - 1) <= MaxFds
  /\ n' = k /\ background' = bg
  /\ pipes' = k - 1
  /\ shell_fds' = shell_fds + 2 * (k - 1)
  /\ pids' = <<>> /\ pgid' = 0 /\ pid' = 0 /\ job_stopped' = FALSE
  /\ pc' = "fork"
  /\ UNCHANGED <<procs, next_pid, jobs, next_jid, tty, child_terminated, shell_st, target>>
  /\ UNCHANGED aside

\* pipe(2) number i fails (lines 186-189): runPipeline returns, the i pipes
\* made before stay open.
ReadLaunchPipeFail(k, bg, i) ==
  /\ Running /\ pc = "read"
  /\ i < k - 1
  /\ shell_fds + 2 * i <= MaxFds
  /\ shell_fds' = shell_fds + 2 * i
  /\ pc' = "poll"
  /\ UNCHANGED <<procs, next_pid, jobs, next_jid, tty, child_terminated, shell_st,
                 frame, target>>
  /\ UNCHANGED aside

\* fork() returns in the parent (line 195); the child starts in the shell's group.
Fork ==
  /\ Running /\ pc = "fork"
  /\ next_pid <= LastPid
  /\ procs' = [procs EXCEPT ![next_pid] =
                 [NoProc EXCEPT !.st = "run", !.pgrp = shell_pgid, !.lead = pgid]]
  /\ pid' = next_pid
  /\ next_pid' = next_pid + 1
  /\ pc' = "setpgid"
  /\ UNCHANGED <<jobs, next_jid, tty, child_terminated, shell_st,
                 n, background, pipes, pids, pgid, job_stopped, target, shell_fds>>
  /\ UNCHANGED aside

\* fork() fails (lines 196-201): SIGTERM to the group of every child made so
\* far, return; the pipes stay open.
ForkFail ==
  /\ Running /\ pc = "fork"
  /\ procs' = kill_term(procs, {pids[i] : i \in 1..Len(pids)})
  /\ child_terminated' = sigchld_handler(procs, procs', child_terminated)
  /\ pc' = "poll"
  /\ NoFrame
  /\ UNCHANGED <<next_pid, jobs, next_jid, tty, shell_st, target, shell_fds>>
  /\ UNCHANGED aside

\* The parent's branch of the fork loop (lines 256-264), and after the last
\* stage the closing of the pipes (line 269).
\* setpgid(c, g) in the parent: EACCES, changing nothing, once the child has
\* replaced its image.
setpgid(ps, c, g) ==
  IF Exists(ps, c) /\ ps[c].cpc = "start" THEN [ps EXCEPT ![c].pgrp = g] ELSE ps

ParentSetpgid ==
  /\ Running /\ pc = "setpgid"
  /\ LET g == IF pgid = 0 THEN pid ELSE pgid IN
       /\ pgid' = g
       /\ procs' = setpgid(procs, pid, g)
  /\ pids' = Append(pids, pid)
  /\ IF Len(pids') = n
     THEN pc' = "launched" /\ shell_fds' = shell_fds - 2 * pipes
     ELSE pc' = "fork" /\ shell_fds' = shell_fds
  /\ UNCHANGED <<next_pid, jobs, next_jid, tty, child_terminated, shell_st,
                 n, background, pipes, pid, job_stopped, target>>
  /\ UNCHANGED aside

\* lines 274-282: the background job is registered.
\* Variant: the entry of a stopped pipeline is made like a background one.
register_running(js, jid, pg, cmd, status) == Append(js, Job(jid, pg, cmd, "RUNNING"))

register(js, jid, pg, cmd, status) == Append(js, Job(jid, pg, cmd, status))

\* Variant: the counter is not advanced.
post_inc_forgotten(jid) == jid

\* next_jid++ (lines 277, 305)
post_inc(jid) == jid + 1

LaunchBackground ==
  /\ Running /\ pc = "launched" /\ background
  /\ jobs' = register(jobs, next_jid, pgid, n, "RUNNING")
  /\ next_jid' = post_inc(next_jid)
  /\ pc' = "poll"
  /\ NoFrame
  /\ UNCHANGED <<procs, next_pid, tty, child_terminated, shell_st, target, shell_fds>>
  /\ UNCHANGED aside

\* line 286: the terminal is given to the job.
LaunchForeground ==
  /\ Running /\ pc = "launched" /\ ~background
  /\ tty' = tcsetpgrp(procs, tty, pgid)
  /\ pc' = "fgwait"
  /\ UNCHANGED <<procs, next_pid, jobs, next_jid, child_terminated, shell_st,
                 frame, target, shell_fds>>
  /\ UNCHANGED aside

\* What waitpid(-g, WUNTRACED) can return.
GroupWaitable(ps, g) ==
  {p \in InGroup(ps, g) : ps[p].st = "zombie" \/ ps[p].rep = "stop"}

\* Variant: the wait gives up as soon as no member has a change to report.
echild_nohang(ps, g) == GroupWaitable(ps, g) = {}

\* waitpid(-g, ...) fails with ECHILD: the shell has no child in the group.
echild(ps, g) == InGroup(ps, g) = {}

\* lines 295, 313-316: a member exited; keep waiting.
FgWaitExited(p) ==
  /\ Running /\ pc = "fgwait"
  /\ p \in GroupWaitable(procs, pgid) /\ procs[p].st = "zombie"
  /\ procs' = Waited(procs, p)
  /\ UNCHANGED <<next_pid, jobs, next_jid, tty, child_terminated, shell_st, pc,
                 frame, target, shell_fds>>
  /\ UNCHANGED aside

\* lines 301-312: a member stopped; the job is registered and the loop left.
FgWaitStopped(p) ==
  /\ Running /\ pc = "fgwait"
  /\ p \in GroupWaitable(procs, pgid) /\ procs[p].st = "stop"
  /\ procs' = Waited(procs, p)
  /\ job_stopped' = TRUE
  /\ jobs' = register(jobs, next_jid, pgid, n, "STOPPED")
  /\ next_jid' = post_inc(next_jid)
  /\ pc' = "fgrestore"
  /\ UNCHANGED <<next_pid, tty, child_terminated, shell_st,
                 n, background, pipes, pids, pgid, pid, target, shell_fds>>
  /\ UNCHANGED aside

\* lines 296-297: ECHILD, no child of the group is left.
FgWaitEchild ==
  /\ Running /\ pc = "fgwait"
  /\ echild(procs, pgid)
  /\ pc' = "fgrestore"
  /\ UNCHANGED <<procs, next_pid, jobs, next_jid, tty, child_terminated, shell_st,
                 frame, target, shell_fds>>
  /\ UNCHANGED aside

\* lines 320-325: the terminal goes back to the shell, runPipeline returns.
FgRestore ==
  /\ Running /\ pc = "fgrestore"
  /\ tty' = tcsetpgrp(procs, tty, shell_pgid)
  /\ pc' = "poll"
  /\ NoFrame
  /\ UNCHANGED <<procs, next_pid, jobs, next_jid, child_terminated, shell_st,
                 target, shell_fds>>
  /\ UNCHANGED aside

\* ------------------------------------------------------------------ fg, bg
\* The job reference of fg/bg, tokens[1]: kind "none" (no token), "pct"
\* (%v), "num" (all digits, value v) or "word" (anything else, atoi gives v).
RefKinds == {"none", "pct", "num", "word"}

RefValues == 0..LastPid

by_pgid_or_pid(js, ps, v) ==
  IF find_job_by_pgid(js, v) # 0 THEN find_job_by_pgid(js, v)
  ELSE find_job_by_pid(js, ps, v)

\* Variant: a bare number is tried as a group id or member pid before it is
\* tried as a job id.
resolve_group_first(js, ps, kind, v) ==
  IF kind = "none" THEN Len(js)
  ELSE IF kind = "pct" THEN (IF v > 0 THEN find_job_by_jid(js, v) ELSE 0)
  ELSE IF kind = "num"
  THEN IF v # 0 /\ by_pgid_or_pid(js, ps, v) # 0 THEN by_pgid_or_pid(js, ps, v)
       ELSE find_job_by_jid(js, v)
  ELSE IF v # 0 THEN by_pgid_or_pid(js, ps, v) ELSE 0

\* lines 404-430
resolve(js, ps, kind, v) ==
  IF kind = "none" THEN Len(js)
  ELSE IF kind = "pct" THEN (IF v > 0 THEN find_job_by_jid(js, v) ELSE 0)
  ELSE IF kind = "num"
  THEN IF find_job_by_jid(js, v) # 0 THEN find_job_by_jid(js, v)
       ELSE IF v # 0 THEN by_pgid_or_pid(js, ps, v) ELSE 0
  ELSE IF v # 0 THEN by_pgid_or_pid(js, ps, v) ELSE 0

\* lines 432-435: no such job.
ReadNoJob(kind, v) ==
  /\ Running /\ pc = "read"
  /\ resolve(jobs, procs, kind, v) = 0
  /\ pc' = "poll"
  /\ UNCHANGED <<procs, next_pid, jobs, next_jid, tty, child_terminated, shell_st,
                 frame, target, shell_fds>>
  /\ UNCHANGED aside

\* Variant: bg marks every entry Running.
bg_status_all(js, t) == [i \in 1..Len(js) |-> [js[i] EXCEPT !.status = "RUNNING"]]

\* lines 437-442: bg.
bg_status(js, t) == [js EXCEPT ![t].status = "RUNNING"]

ReadBg(kind, v) ==
  /\ Running /\ pc = "read"
  /\ LET t == resolve(jobs, procs, kind, v) IN
       /\ t # 0
       /\ procs' = kill_cont(procs, jobs[t].pgid)
       /\ jobs' = bg_status(jobs, t)
  /\ child_terminated' = sigchld_handler(procs, procs', child_terminated)
  /\ pc' = "poll"
  /\ UNCHANGED <<next_pid, next_jid, tty, shell_st, frame, target, shell_fds>>
  /\ UNCHANGED aside

\* lines 444-450: fg gives the terminal to the job and continues it.
fg_status(js, t) == js

ReadFg(kind, v) ==
  /\ Running /\ pc = "read"
  /\ LET t == resolve(jobs, procs, kind, v) IN
       /\ t # 0
       /\ target' = t
       /\ tty' = tcsetpgrp(procs, tty, jobs[t].pgid)
       /\ procs' = kill_cont(procs, jobs[t].pgid)
       /\ jobs' = fg_status(jobs, t)
  /\ child_terminated' = sigchld_handler(procs, procs', child_terminated)
  /\ pc' = "fg_wait"
  /\ UNCHANGED <<next_pid, next_jid, shell_st, frame, shell_fds>>
  /\ UNCHANGED aside

\* lines 455, 466-468: a member exited; keep waiting.
FgExited(p) ==
  /\ Running /\ pc = "fg_wait"
  /\ p \in GroupWaitable(procs, jobs[target].pgid) /\ procs[p].st = "zombie"
  /\ procs' = Waited(procs, p)
  /\ UNCHANGED <<next_pid, jobs, next_jid, tty, child_terminated, shell_st, pc,
                 frame, target, shell_fds>>
  /\ UNCHANGED aside

\* lines 461-465: a member stopped.
FgStopped(p) ==
  /\ Running /\ pc = "fg_wait"
  /\ p \in GroupWaitable(procs, jobs[target].pgid) /\ procs[p].st = "stop"
  /\ procs' = Waited(procs, p)
  /\ jobs' = [jobs EXCEPT ![target].status = "STOPPED"]
  /\ pc' = "fg_probe"
  /\ UNCHANGED <<next_pid, next_jid, tty, child_terminated, shell_st,
                 frame, target, shell_fds>>
  /\ UNCHANGED aside

\* lines 456-457: ECHILD.
FgEchild ==
  /\ Running /\ pc = "fg_wait"
  /\ echild(procs, jobs[target].pgid)
  /\ pc' = "fg_probe"
  /\ UNCHANGED <<procs, next_pid, jobs, next_jid, tty, child_terminated, shell_st,
                 frame, target, shell_fds>>
  /\ UNCHANGED aside

\* lines 472-480: the job is removed when its group is gone; the terminal
\* goes back to the shell.
\* Variant: fg leaves the terminal with the job.
fg_restore_skipped(ps, cur) == cur

fg_restore(ps, cur) == tcsetpgrp(ps, cur, shell_pgid)

FgProbe ==
  /\ Running /\ pc = "fg_probe"
  /\ jobs' = IF kill_probe_fails(procs, jobs[target].pgid)
             THEN remove_job_by_pgid(jobs, jobs[target].pgid)
             ELSE jobs
  /\ tty' = fg_restore(procs, tty)
  /\ target' = 0
  /\ pc' = "poll"
  /\ UNCHANGED <<procs, next_pid, next_jid, child_terminated, shell_st, frame, shell_fds>>
  /\ UNCHANGED aside

\* ------------------------------------------------------------------- Next
Next ==
  \/ \E p \in Pids : ChildExec(p)
  \/ \E p \in Pids : ChildExit(p)
  \/ \E p \in Pids : ChildStop(p)
  \/ \E sig \in KeySignals : KeySig(sig)
  \/ Poll
  \/ \E p \in Pids : Drain(p)
  \/ DrainEnd
  \/ Clear
  \/ ReadExit
  \/ ReadNoop
  \/ \E k \in 1..MaxStages, bg \in BOOLEAN : ReadLaunch(k, bg)
  \/ \E k \in 1..MaxStages, bg \in BOOLEAN, i \in 0..(MaxStages - 2) :
       ReadLaunchPipeFail(k, bg, i)
  \/ Fork
  \/ ForkFail
  \/ ParentSetpgid
  \/ LaunchBackground
  \/ LaunchForeground
  \/ \E p \in Pids : FgWaitExited(p)
  \/ \E p \in Pids : FgWaitStopped(p)
  \/ FgWaitEchild
  \/ FgRestore
  \/ \E kind \in RefKinds, v \in RefValues : ReadNoJob(kind, v)
  \/ \E kind \in RefKinds, v \in RefValues : ReadBg(kind, v)
  \/ \E kind \in RefKinds, v \in RefValues : ReadFg(kind, v)
  \/ \E p \in Pids : FgExited(p)
  \/ \E p \in Pids : FgStopped(p)
  \/ FgEchild
  \/ FgProbe

Spec == Init /\ [][Next]_vars

\* ====================================================== handling of one line
\* What main does with one line, taken by itself: the tokens are those left
\* after the background marker '&' has been taken off (lines 370-386), and
\* background says whether there was one.  buildCommands reads nothing but
\* its argument, so it is applied here before main looks at the first token.
Words == {"cd", "jobs", "exit", "fg", "ls"}

Operators == {"|", "<", ">", ">>"}

RECURSIVE SeqsUpTo(_, _)
SeqsUpTo(S, len) ==
  IF len = 0 THEN {<<>>}
  ELSE LET shorter == SeqsUpTo(S, len - 1) IN
         shorter \cup {Append(t, x) : t \in shorter, x \in S}

TokenSeqs == SeqsUpTo(Words \cup Operators, MaxTokens)

\* lines 54-59: struct Command.
Command == [argv |-> <<>>, infile |-> "", outfile |-> "", append |-> FALSE]

\* lines 129-150: the loop of buildCommands from token i on; cs is cmds.
RECURSIVE build(_, _, _)
build(toks, i, cs) ==
  IF i > Len(toks) THEN cs
  ELSE LET tk == toks[i]
           back == Len(cs)
       IN IF tk = "|" THEN build(toks, i + 1, Append(cs, Command))
          ELSE IF tk = "<"
          THEN IF i + 1 <= Len(toks)
               THEN build(toks, i + 2, [cs EXCEPT ![back].infile = toks[i + 1]])
               ELSE build(toks, i + 1, cs)
          ELSE IF tk = ">"
          THEN IF i + 1 <= Len(toks)
               THEN build(toks, i + 2, [cs EXCEPT ![back].outfile = toks[i + 1],
                                                  ![back].append = FALSE])
               ELSE build(toks, i + 1, cs)
          ELSE IF tk = ">>"
          THEN IF i + 1 <= Len(toks)
               THEN build(toks, i + 2, [cs EXCEPT ![back].outfile = toks[i + 1],
                                                  ![back].append = TRUE])
               ELSE build(toks, i + 1, cs)
          ELSE build(toks, i + 1, [cs EXCEPT ![back].argv = Append(@, tk)])

\* lines 126-157
buildCommands(toks) ==
  LET cs == build(toks, 1, <<Command>>) IN
    IF cs # <<>> /\ cs[Len(cs)].argv = <<>> /\ cs[Len(cs)].infile = ""
                 /\ cs[Len(cs)].outfile = ""
    THEN SubSeq(cs, 1, Len(cs) - 1)
    ELSE cs

\* lines 160-180: the head of runPipeline.  "spawn" is the rest of it.
runPipeline(cs, bg) ==
  IF Len(cs) = 1 /\ ~bg /\ cs[1].argv # <<>> /\ cs[1].argv[1] \in {"cd", "jobs", "exit"}
  THEN cs[1].argv[1]
  ELSE "spawn"

\* lines 378-402 and 485-490: main, from the tokens on.
main(toks, cs, bg) ==
  IF toks = <<>> THEN "skip"
  ELSE IF toks[1] \in {"jobs", "cd", "exit"} THEN toks[1]
  ELSE IF toks[1] \in {"fg", "bg"} THEN "fgbg"
  ELSE IF cs = <<>> THEN "skip"
  ELSE runPipeline(cs, bg)

LineInit ==
  /\ \E bg \in BOOLEAN : Boot(bg)
  /\ tokens \in TokenSeqs
  /\ cmds = <<>>
  /\ handled = ""
  /\ stage = NoStage
  /\ child = NoChild

Build ==
  /\ handled = ""
  /\ cmds' = buildCommands(tokens)
  /\ handled' = "built"
  /\ UNCHANGED <<procs, next_pid, jobs, next_jid, tty, child_terminated, shell_st,
                 pc, frame, target, shell_fds, tokens, stage, child>>

Dispatch ==
  /\ handled = "built"
  /\ handled' = main(tokens, cmds, background)
  /\ UNCHANGED <<procs, next_pid, jobs, next_jid, tty, child_terminated, shell_st,
                 pc, frame, target, shell_fds, tokens, cmds, stage, child>>

LineNext == Build \/ Dispatch

LineSpec == LineInit /\ [][LineNext]_vars

\* =================================================== set-up of one child
\* What the forked child of stage i does with its descriptors between fork
\* and exec (lines 212-252), taken by itself.  A descriptor table maps a
\* descriptor number to the open file description behind it.  The shell has
\* its three standard descriptors open when it forks, so pipe() hands out the
\* numbers from FirstFd on, and the calls to dup2, which are given open
\* descriptors only, succeed.
STDIN_FILENO == 0

STDOUT_FILENO == 1

FirstFd == 3

Closed == [kind |-> "closed", pipe |-> 0, end |-> "", file |-> "", mode |-> ""]

Inherited == [Closed EXCEPT !.kind = "inherited"]

PipeEnd(j, e) == [Closed EXCEPT !.kind = "pipe", !.pipe = j, !.end = e]

OpenFile(f, m) == [Closed EXCEPT !.kind = "file", !.file = f, !.mode = m]

Fds == 0..(FirstFd + 2 * (MaxWired - 1))

\* lines 182-190: pipes[2*j] is the read end and pipes[2*j+1] the write end
\* of pipe j, as numbers of descriptors.
pipes_vec(len) == [k \in 0..(2 * (len - 1) - 1) |-> FirstFd + k]

\* The descriptor table the child inherits at fork (line 193).
forked_fds(len) ==
  [fd \in Fds |->
     IF fd < FirstFd THEN Inherited
     ELSE IF fd < FirstFd + 2 * (len - 1)
     THEN PipeEnd((fd - FirstFd) \div 2, IF (fd - FirstFd) % 2 = 0 THEN "r" ELSE "w")
     ELSE Closed]

dup2(fds, oldfd, newfd) == [fds EXCEPT ![newfd] = fds[oldfd]]

close(fds, fd) == [fds EXCEPT ![fd] = Closed]

\* open() returns the lowest descriptor number that is free.
lowest_free(fds) == CHOOSE fd \in Fds : fds[fd] = Closed /\ \A g \in Fds : g < fd => fds[g] # Closed

\* The files of the model: "in" can be read, "out" can be written, "none" can
\* be neither opened for reading nor created.
Files == {"in", "out", "none"}

can_open(f, flags) == IF flags = "O_RDONLY" THEN f = "in" ELSE f = "out"

\* line 214: int in_fd = pipes[2*(i-1)];
in_fd(ps, i) == ps[2 * (i - 1)]

\* Variant: stage i takes the read end of its pipe as its output.
out_fd_read_end(ps, i) == ps[2 * i]

\* line 219: int out_fd = pipes[2*i + 1];
out_fd(ps, i) == ps[2 * i + 1]

\* lines 212-221: stdin from the previous pipe, stdout to the next pipe.
wire_pipes(fds, ps, i, len) ==
  LET a == IF i > 0 THEN dup2(fds, in_fd(ps, i), STDIN_FILENO) ELSE fds
  IN IF i < len - 1 THEN dup2(a, out_fd(ps, i), STDOUT_FILENO) ELSE a

\* lines 224-229 and 232-238: open, dup2, close.
redirect(fds, f, mode, target_fd) ==
  LET fd == lowest_free(fds) IN
    close(dup2([fds EXCEPT ![fd] = OpenFile(f, mode)], fd, target_fd), fd)

\* line 233: O_WRONLY | O_CREAT | (append ? O_APPEND : O_TRUNC)
out_flags(append) == IF append THEN "O_APPEND" ELSE "O_TRUNC"

RECURSIVE close_all(_, _, _)
\* line 242: for (int fd : pipes) close(fd);
close_all(fds, ps, k) ==
  IF k \notin DOMAIN ps THEN fds ELSE close_all(close(fds, ps[k]), ps, k + 1)

\* lines 212-252: the child from the pipe wiring to exec or _exit.
child_setup(st, fds) ==
  LET ps == pipes_vec(st.n)
      a  == wire_pipes(fds, ps, st.i, st.n)
  IN IF st.infile # "" /\ ~can_open(st.infile, "O_RDONLY")
     THEN [fds |-> a, at |-> "exit1"]
     ELSE LET b == IF st.infile # "" THEN redirect(a, st.infile, "O_RDONLY", STDIN_FILENO)
                   ELSE a
          IN IF st.outfile # "" /\ ~can_open(st.outfile, out_flags(st.append))
             THEN [fds |-> b, at |-> "exit1"]
             ELSE LET c == IF st.outfile # ""
                           THEN redirect(b, st.outfile, out_flags(st.append), STDOUT_FILENO)
                           ELSE b
                      d == close_all(c, ps, 0)
                  IN IF st.argv = <<>> THEN [fds |-> d, at |-> "exit0"]
                     ELSE [fds |-> d, at |-> "exec"]

Stages ==
  [i : 0..(MaxWired - 1), n : 1..MaxWired, argv : {<<>>, <<"ls">>},
   infile : {""} \cup Files, outfile : {""} \cup Files, append : BOOLEAN]

StageInit ==
  /\ Boot(FALSE)
  /\ tokens = <<>>
  /\ cmds = <<>>
  /\ handled = ""
  /\ stage \in {st \in Stages : st.i < st.n}
  /\ child = [fds |-> forked_fds(stage.n), at |-> "forked"]

ChildSetup ==
  /\ child.at = "forked"
  /\ child' = child_setup(stage, child.fds)
  /\ UNCHANGED <<procs, next_pid, jobs, next_jid, tty, child_terminated, shell_st,
                 pc, frame, target, shell_fds, tokens, cmds, handled, stage>>

StageNext == ChildSetup

StageSpec == StageInit /\ [][StageNext]_vars

\* ================================================================= claims
AtPrompt == shell_st = "running" /\ pc = "read"

JobGroups == {jobs[i].pgid : i \in 1..Len(jobs)}

\* ----------------------------------------------------------------------- C1
\* C1: a job whose group has lost every member is removed from the Job Table
\* by the main-loop iteration that follows: when the shell is back at the
\* prompt with the child-state flag clear, every entry of the Job Table still
\* has a member that has not been reaped.
C1_RemovedOnceAllExited ==
  (AtPrompt /\ child_terminated = 0) =>
     \A i \in 1..Len(jobs) : InGroup(procs, jobs[i].pgid) # {}

\* ----------------------------------------------------------------------- C2
\* The step of the foreground wait that takes a member's stop report.
StopReported ==
  pc = "fgwait" /\ \E p \in Pids : procs[p].rep = "stop" /\ procs'[p].rep = "none"

\* C2: when the foreground wait of runPipeline is told that a member stopped,
\* the Job Table gains exactly one entry, appended, for the pipeline's group,
\* with status Stopped and an id and a group no entry had; the loop is left
\* at once with the terminal still the job's; and the one step that follows
\* hands the terminal back to the shell and returns, the table untouched.
C2_ForegroundStopRegistersOnce ==
  /\ [][StopReported =>
          /\ jobs' = Append(jobs, [jid |-> next_jid, pgid |-> pgid, cmd |-> n,
                                   status |-> "STOPPED"])
          /\ \A i \in 1..Len(jobs) : jobs[i].jid # next_jid /\ jobs[i].pgid # pgid
          /\ next_jid' > next_jid
          /\ pc' = "fgrestore"
          /\ pgid # shell_pgid /\ tty = pgid /\ tty' = tty]_vars
  /\ [][pc = "fgrestore" =>
          /\ jobs' = jobs
          /\ IF pc' = pc THEN tty' = tty ELSE pc' = "poll" /\ tty' = shell_pgid]_vars

C2_Witness == pc = "fgrestore" /\ job_stopped /\ Len(jobs) = 2 /\ tty = pgid

\* ----------------------------------------------------------------------- C3
\* C3: when fg sends the continue signal to a job whose status is Stopped, the
\* job's status becomes Running; and when fg is done, the job is either gone
\* from the Job Table, every member having exited, or has status Stopped.
C3_FgRunningThenRemovedOrStopped ==
  /\ [][(pc = "read" /\ pc' = "fg_wait" /\ jobs[target'].status = "STOPPED")
          => jobs'[target'].status = "RUNNING"]_vars
  /\ [][(pc = "fg_probe" /\ pc' = "poll") =>
          LET t == find_job_by_pgid(jobs', jobs[target].pgid) IN
            \/ t = 0 /\ InGroup(procs', jobs[target].pgid) = {}
            \/ t # 0 /\ jobs'[t].status = "STOPPED"]_vars

\* ----------------------------------------------------------------------- C4
WaitPcs == {"fgwait", "fgrestore", "fg_wait", "fg_probe"}

\* C4: outside the foreground wait of runPipeline and of fg, and so whenever
\* the main loop is at its prompt, the terminal's foreground process group is
\* the shell's own.
C4_PromptOwnsTerminal == pc \notin WaitPcs => tty = shell_pgid

\* A job was registered and fg has removed it: the shell is at the prompt again.
C4_Witness == AtPrompt /\ jobs = <<>> /\ next_jid = 2 /\ tty = shell_pgid

\* ----------------------------------------------------------------------- C5
LiveGroups == {procs[p].pgrp : p \in {q \in Pids : Live(procs, q)}}

\* C5: at the prompt, every process group that still has a live member has
\* exactly one entry of the Job Table, and no two entries have the same group.
C5_OneEntryPerLiveGroup ==
  AtPrompt =>
    /\ \A g \in LiveGroups : Cardinality({i \in 1..Len(jobs) : jobs[i].pgid = g}) = 1
    /\ \A i, j \in 1..Len(jobs) : jobs[i].pgid = jobs[j].pgid => i = j

\* ----------------------------------------------------------------------- C6
JobIds(js) == {js[i].jid : i \in 1..Len(js)}

\* C6: the ids of the Job Table increase along the table (so they are
\* pairwise distinct and in registration order) and are below next_jid;
\* next_jid never decreases, and an entry that a step adds gets an id that is
\* not below the counter before the step, so no id is given out twice.
C6_JobIdsIncrease ==
  /\ [](\A i, j \in 1..Len(jobs) : i < j => jobs[i].jid < jobs[j].jid)
  /\ [](\A i \in 1..Len(jobs) : 1 <= jobs[i].jid /\ jobs[i].jid < next_jid)
  /\ [][/\ next_jid' >= next_jid
        /\ \A i \in 1..Len(jobs') :
             jobs'[i].jid \notin JobIds(jobs) => jobs'[i].jid >= next_jid]_vars

\* Job 1 was removed and job 2 is in the table.
C6_Witness == Len(jobs) = 1 /\ jobs[1].jid = 2 /\ next_jid = 3

\* ----------------------------------------------------------------------- C7
\* C7: an interrupt, terminal-stop or quit signal sent to the shell's group
\* neither terminates nor stops the shell, and every stage that has replaced
\* its image has the default disposition for the three signals.
C7_ShellIgnoresKeyboardSignals ==
  /\ shell_st = "running"
  /\ \A p \in Pids : \A sig \in KeySignals :
       (Exists(procs, p) /\ procs[p].cpc = "exec") => ChildDisp(procs[p], sig) = "DFL"

\* ----------------------------------------------------------------------- C8
Forked == {pids[i] : i \in 1..Len(pids)} \cup (IF pc = "setpgid" THEN {pid} ELSE {})

Leader == IF pids # <<>> THEN pids[1] ELSE pid

\* C8: when the fork loop of a launch is done, n processes were made (pids
\* holds n different processes, none reaped) and n - 1 pipes; pgid is the pid
\* of the first; that group is new (no entry of the Job Table names it, and
\* it has no other member); and every one of the n is in it.  During the
\* loop, a child that has replaced its image is already in that group, whether
\* or not the parent has reached its own setpgid.
C8_OneGroupForAllStages ==
  /\ pc = "launched" =>
       /\ Len(pids) = n /\ Cardinality({pids[i] : i \in 1..Len(pids)}) = n
       /\ pipes = n - 1
       /\ pgid = pids[1]
       /\ \A i \in 1..n : Exists(procs, pids[i]) /\ procs[pids[i]].pgrp = pgid
       /\ InGroup(procs, pgid) = {pids[i] : i \in 1..n}
       /\ pgid \notin JobGroups
  /\ pc \in {"fork", "setpgid"} =>
       \A p \in Forked :
         (Exists(procs, p) /\ procs[p].cpc = "exec") => procs[p].pgrp = Leader

\* Two stages: the first joined the group itself, the second was put there
\* by the parent before it ran.
C8_Witness ==
  /\ pc = "launched" /\ n = 2
  /\ procs[pids[1]].cpc = "exec" /\ procs[pids[2]].cpc = "start"

\* ----------------------------------------------------------------------- C9
\* C9: when the foreground wait of runPipeline ends without a stop, every one
\* of the n processes of the pipeline has been reaped; a step of the wait that
\* reaps a member stays in the wait; and no step of a foreground invocation
\* in which no member stops changes the Job Table or next_jid.
C9_ForegroundWaitsForAll ==
  /\ []((pc = "fgrestore" /\ ~job_stopped) =>
          Len(pids) = n /\ \A i \in 1..n : procs[pids[i]].st = "gone")
  /\ [][(pc = "fgwait" /\ \E p \in Pids : procs[p].st # "gone" /\ procs'[p].st = "gone")
          => pc' = "fgwait"]_vars
  /\ [][(pc \in {"fork", "setpgid", "launched", "fgwait", "fgrestore"}
           /\ ~background /\ ~job_stopped')
          => jobs' = jobs /\ next_jid' = next_jid]_vars

C9_Witness == pc = "fgrestore" /\ ~job_stopped /\ n = 2

\* ---------------------------------------------------------------------- C10
\* C10: a step that goes from the prompt straight back to the top of the loop,
\* as bg does, reaps no process and leaves the terminal, next_jid and the
\* length of the Job Table alone; bg on the job it resolves sets that entry's
\* status to Running and changes nothing else in the table, continues every
\* stopped member of the job's group and touches no process outside it.
C10_BgContinuesOneJob ==
  /\ [][(pc = "read" /\ pc' = "poll") =>
          /\ tty' = tty /\ next_jid' = next_jid /\ Len(jobs') = Len(jobs)
          /\ \A p \in Pids : procs'[p].st = "gone" => procs[p].st = "gone"]_vars
  /\ [][\A kind \in RefKinds, v \in RefValues :
          ReadBg(kind, v) =>
            LET t == resolve(jobs, procs, kind, v)
                g == jobs[t].pgid
            IN /\ jobs'[t] = [jobs[t] EXCEPT !.status = "RUNNING"]
               /\ \A i \in 1..Len(jobs) : i # t => jobs'[i] = jobs[i]
               /\ \A p \in Pids :
                    IF p \in InGroup(procs, g)
                    THEN procs[p].st = "stop" => procs'[p].st # "stop"
                    ELSE procs'[p] = procs[p]]_vars

\* bg has continued the first job; the second is still Stopped.
C10_Witness ==
  /\ pc = "poll" /\ Len(jobs) = 2
  /\ jobs[1].status = "RUNNING" /\ jobs[2].status = "STOPPED"
  /\ \E p \in InGroup(procs, jobs[1].pgid) : procs[p].rep = "cont"

\* ---------------------------------------------------------------------- C11
\* The step the main loop takes for an fg or bg line with reference (kind, v).
FgBg(kind, v) == ReadNoJob(kind, v) \/ ReadBg(kind, v) \/ ReadFg(kind, v)

\* The references that name no job: %0 or an unknown %n, a number that is no
\* job id, no group id of a job and no member of a job's group, a token that
\* is not a number, and no reference while the Job Table is empty.
NamesNoJob(kind, v) ==
  \/ kind = "none" /\ jobs = <<>>
  \/ kind = "pct" /\ (v = 0 \/ v \notin JobIds(jobs))
  \/ kind = "num" /\ v \notin JobIds(jobs) /\ v \notin JobGroups
                  /\ \A g \in JobGroups : v \notin InGroup(procs, g)
  \/ kind = "word"

\* C11: fg or bg with a reference that names no job (unknown %n, %0, unknown
\* number, non-numeric token, no reference with an empty Job Table) goes back
\* to the prompt and changes nothing: no signal is sent, no wait is performed,
\* and the Job Table, the next-id counter and the terminal owner are unchanged.
C11_NoSuchJobChangesNothing ==
  [][\A kind \in RefKinds, v \in RefValues :
       (NamesNoJob(kind, v) /\ FgBg(kind, v))
         => /\ pc' = "poll"
            /\ UNCHANGED <<procs, jobs, next_jid, tty, child_terminated, target>>]_vars

\* ---------------------------------------------------------------------- C12
\* The entries of the Job Table with job id v, with group id v, and whose
\* group holds the process v that has not been reaped.
WithId(v) == {i \in 1..Len(jobs) : jobs[i].jid = v}

WithGroup(v) == {i \in 1..Len(jobs) : jobs[i].pgid = v}

WithMember(v) == {i \in 1..Len(jobs) : v \in InGroup(procs, jobs[i].pgid)}

Earliest(S) == CHOOSE i \in S : \A k \in S : i <= k

ByNumber(v) ==
  IF WithId(v) # {} THEN Earliest(WithId(v))
  ELSE IF WithGroup(v) # {} THEN Earliest(WithGroup(v))
  ELSE IF WithMember(v) # {} THEN Earliest(WithMember(v))
  ELSE 0

ByPercent(v) == IF WithId(v) # {} THEN Earliest(WithId(v)) ELSE 0

Named(kind, v) == IF kind = "num" THEN ByNumber(v) ELSE ByPercent(v)

Decided == handled \notin {"", "built"}

HasPipe == \E i \in 1..Len(tokens) : tokens[i] = "|"

BuiltinFirst == tokens # <<>> /\ tokens[1] \in {"cd", "jobs", "exit"}

\* C13: cd, jobs and exit are handled inline only when they are the first
\* token of a line that has exactly one stage, no pipe token and no background
\* marker; a line whose first token is one of them but which has a pipe token
\* or a background marker is launched as a pipeline of spawned processes.
C13_BuiltinOnlyAloneInForeground ==
  Decided =>
    /\ handled \in {"cd", "jobs", "exit"}
         => BuiltinFirst /\ ~HasPipe /\ Len(cmds) = 1 /\ ~background
    /\ (BuiltinFirst /\ (HasPipe \/ background)) => handled = "spawn"

\* ---------------------------------------------------------------------- C14
NumPipes == Cardinality({i \in 1..Len(tokens) : tokens[i] = "|"})

EmptyStage(c) == c.argv = <<>> /\ c.infile = "" /\ c.outfile = ""

\* C14: for a token sequence with k pipe tokens the Command Builder returns
\* at most k+1 stages, the returned list never ends with a stage that has no
\* argument and no redirection, and the empty token sequence gives no stage.
C14_NoEmptyTrailingStage ==
  handled # "" =>
    /\ Len(cmds) <= NumPipes + 1
    /\ cmds # <<>> => ~EmptyStage(cmds[Len(cmds)])
    /\ tokens = <<>> => cmds = <<>>

\* ---------------------------------------------------------------------- C15
\* C15: no exit of a child is lost by the flag and the draining pass: when
\* the main loop polls the flag while a child that has exited is still to be
\* reaped, the flag is set, whenever the child exited (also during the
\* draining pass, or between its last waitpid and the clearing of the flag).
C15_NoChangeLost ==
  (Running /\ pc = "poll" /\ \E p \in Pids : procs[p].st = "zombie")
    => child_terminated # 0

\* ---------------------------------------------------------------------- C16
\* A child exits, is stopped, or is continued in this step.
Exits(p) == procs[p].st \in {"run", "stop"} /\ procs'[p].st = "zombie"

Stops(p) == procs[p].st = "run" /\ procs'[p].st = "stop"

Continues(p) == procs[p].st = "stop" /\ procs'[p].st = "run"

\* C16: the flag is set by every kind of child state change: after a step in
\* which a child exits, is stopped or is continued (and which leaves the
\* shell running), the flag is set.
C16_FlagSetOnEveryChange ==
  [][\A p \in Pids :
       (shell_st' = "running" /\ (Exits(p) \/ Stops(p) \/ Continues(p)))
         => child_terminated' # 0]_vars

\* ---------------------------------------------------------------------- C17
\* C17: when the draining pass reaps an exited child, the Job Table entry of
\* the child's group is removed, also while other members of the group are
\* alive, and a child whose group has no entry changes nothing.
C17_DrainRemovesJobOfExited ==
  [][\A p \in Pids :
       (pc = "drain" /\ procs[p].st = "zombie" /\ procs'[p].st = "gone")
         => jobs' = remove_job_by_pgid(jobs, procs[p].pgrp)]_vars

\* ---------------------------------------------------------------------- C18
\* C18: on every return path of runPipeline (success, failure of a pipe,
\* failure of a fork) the shell has closed every pipe descriptor it created:
\* outside the fork loop the shell holds no open pipe descriptor.
C18_NoPipeLeftOpen == pc \notin {"fork", "setpgid"} => shell_fds = 0

\* ---------------------------------------------------------------------- C19
\* Some redirection target of the stage cannot be opened.
CannotOpen ==
  \/ stage.infile \notin {"", "in"}
  \/ stage.outfile \notin {"", "out"}

\* C19: when stage i of n replaces its image, its standard input is its input
\* file if it has one, otherwise the read end of pipe i-1 if i > 0, otherwise
\* the inherited input; its standard output is its output file if it has one
\* (opened to append or to truncate as its flag says), otherwise the write end
\* of pipe i if i < n-1, otherwise the inherited output; every other
\* descriptor of a pipe is closed.  A stage with a redirection target that
\* cannot be opened exits with a nonzero status and never replaces its image.
C19_StageWiring ==
  /\ child.at = "exec" =>
       /\ child.fds[0] = IF stage.infile # "" THEN OpenFile(stage.infile, "O_RDONLY")
                         ELSE IF stage.i > 0 THEN PipeEnd(stage.i - 1, "r")
                         ELSE Inherited
       /\ child.fds[1] = IF stage.outfile # ""
                         THEN OpenFile(stage.outfile,
                                       IF stage.append THEN "O_APPEND" ELSE "O_TRUNC")
                         ELSE IF stage.i < stage.n - 1 THEN PipeEnd(stage.i, "w")
                         ELSE Inherited
       /\ \A fd \in Fds \ {0, 1} : child.fds[fd].kind # "pipe"
  /\ (CannotOpen /\ child.at \notin {"none", "forked"}) => child.at = "exit1"

\* The middle stage of three, with an input file, has replaced its image.
C19_Witness ==
  /\ child.at = "exec" /\ stage.n = 3 /\ stage.i = 1
  /\ stage.infile # "" /\ stage.outfile = ""

====
